---------------------------- MODULE Spec2Model ----------------------------
(***************************************************************************)
(* The relational schema of index/models.py, and the catalog client of      *)
(* index/services/collectors/client.py, as a state machine.                *)
(*                                                                         *)
(* The state is the content of the tables the model classes declare.  The  *)
(* operations are the three writes a relational store offers on a row      *)
(* (INSERT, UPDATE by primary key, DELETE by primary key); what each of    *)
(* them accepts, rejects and cascades to is decided by the declarations in *)
(* models.py: primary keys, UniqueConstraint entries of each class's Meta, *)
(* OneToOneField / ForeignKey targets and their on_delete rule.            *)
(***************************************************************************)
EXTENDS Integers, FiniteSets, Sequences, TLC

VARIABLES
    db,       \* db[t]: the set of rows of table t (t is the class's db_table)
    last,     \* the last operation and its outcome, as returned to the caller
    attempts, \* attempts[s]: the logs of the processing attempts on Subject s
              \* since its enrollment, oldest first (history)
    writers,  \* writers[w]: what writer w is doing, and how its insert ended
    client    \* the GET requests the client has issued, and its last call

vars == <<db, last, attempts, writers, client>>

---------------------------------------------------------------------------
(* Bounds of the model *)

MaxSubjects == 2    \* Subject primary keys are 1..MaxSubjects
MaxRows     == 2    \* primary keys of every other table are 1..MaxRows
MaxIdSource == 2    \* id_source values are 1..MaxIdSource
MaxAttempts == 2    \* attempt_count values are 0..MaxAttempts
MaxCalls    == 3    \* the client makes at most MaxCalls calls

SubjectIds   == 1..MaxSubjects
RowIds       == 1..MaxRows
InfoSources  == {"bangumi", "vndb"}
IdSources    == 1..MaxIdSource
Codes        == {"c1", "c2"}
Names        == {"n1", "n2"}
Descriptions == {"", "d1", "d2"}
Dates        == {"NULL", "2024-01-01", "2024-02-01"}
Logs         == {"", "log1", "log2"}
Times        == {"t0", "t1"}

---------------------------------------------------------------------------
(* Field choices declared in models.py *)

SEVERITY_CHOICES == {"info", "warning", "error"}

SUBJECT_TYPES == {"anime", "galgame", "manga", "game", "novel", "music", "other"}

\* The values the severity column can hold.  CharField(max_length=64,
\* choices=SEVERITY_CHOICES): the choices are checked by form and full_clean()
\* validation only; create() and save() store whatever text they are given.
Severities == SEVERITY_CHOICES \cup {"fatal"}

---------------------------------------------------------------------------
(* Meta options *)

\* class Source.Meta: the UniqueConstraint the abstract base declares.
SourceMetaConstraints == {{"info_source", "id_source"}}

\* The constraints a concrete class ends up with.  A class body that declares
\* its own inner `class Meta:` (not `class Meta(Source.Meta):`) replaces the
\* abstract parent's Meta: ordering, constraints and indexes of the parent are
\* not merged into it.  Only a class that declares no Meta takes the parent's.
MetaConstraints(declaresOwnMeta, own, parent) ==
    IF declaresOwnMeta THEN own ELSE parent

\* A relation field: the column, the table it points to, the on_delete rule,
\* and whether the column is unique (OneToOneField).
ForeignKey(field, to, on_delete) ==
    [field |-> field, to |-> to, on_delete |-> on_delete, unique |-> FALSE]

OneToOneField(field, to, on_delete) ==
    [field |-> field, to |-> to, on_delete |-> on_delete, unique |-> TRUE]

\* The rows of an abstract Source subclass with an automatic primary key.
SourceRows == [id: RowIds, info_source: InfoSources, id_source: IdSources]

\* The rows of a CodeNameCombine subclass.
CodeNameCombine == [id: RowIds, code: Codes, name: Names]

\* The table ManyToManyField creates when no `through` is given: one column
\* per side, both CASCADE, unique together.
ManyToManyField(db_table, from, fromTable, fromIds, to, toTable) ==
    [db_table    |-> db_table,
     pk          |-> "id",
     rows        |-> [id: RowIds, a: fromIds, b: RowIds],
     constraints |-> {{"a", "b"}},
     fk          |-> {ForeignKey("a", fromTable, "CASCADE"),
                      ForeignKey("b", toTable, "CASCADE")},
     sides       |-> <<from, to>>]

---------------------------------------------------------------------------
(* The model classes *)

\* Mutant: the status points at its Subject with a plain ForeignKey.
SubjectStatusForeignKey ==
    [db_table    |-> "subject_status",
     pk          |-> "id",
     rows        |-> [id: RowIds, subject: SubjectIds, severity: Severities,
                      headline: {"", "h1"}, is_resolved: BOOLEAN, is_locked: BOOLEAN],
     constraints |-> {},
     fk          |-> {ForeignKey("subject", "subject", "CASCADE")}]

SubjectStatus ==
    [db_table    |-> "subject_status",
     pk          |-> "id",
     rows        |-> [id: RowIds, subject: SubjectIds, severity: Severities,
                      headline: {"", "h1"}, is_resolved: BOOLEAN, is_locked: BOOLEAN],
     constraints |-> {},
     fk          |-> {OneToOneField("subject", "subject", "CASCADE")}]

Subject ==
    [db_table    |-> "subject",
     pk          |-> "id",
     rows        |-> [id: SubjectIds, subject_type: SUBJECT_TYPES,
                      date: Dates, ambiguous_date: Dates,
                      info_source: InfoSources, id_source: IdSources],
     constraints |-> MetaConstraints(TRUE, {}, SourceMetaConstraints),
     fk          |-> {}]

SubjectRelationType ==
    [db_table    |-> "subject_relation_type",
     pk          |-> "id",
     rows        |-> CodeNameCombine,
     constraints |-> {{"code"}},
     fk          |-> {}]

SubjectRelation ==
    [db_table    |-> "subject_relation",
     pk          |-> "id",
     rows        |-> [id: RowIds, source: SubjectIds, target: SubjectIds, type: RowIds],
     constraints |-> {},
     fk          |-> {ForeignKey("source", "subject", "CASCADE"),
                      ForeignKey("target", "subject", "CASCADE"),
                      ForeignKey("type", "subject_relation_type", "PROTECT")}]

AnimeStaff ==
    [db_table    |-> "anime_staff",
     pk          |-> "id",
     rows        |-> SourceRows,
     constraints |-> MetaConstraints(TRUE, {}, SourceMetaConstraints),
     fk          |-> {}]

AnimeCharacter ==
    [db_table    |-> "anime_character",
     pk          |-> "id",
     rows        |-> SourceRows,
     constraints |-> MetaConstraints(TRUE, {}, SourceMetaConstraints),
     fk          |-> {}]

AnimeCharacterActors ==
    ManyToManyField("anime_character_actors", "animecharacter", "anime_character",
                    RowIds, "animestaff", "anime_staff")

AnimeGenre ==
    [db_table    |-> "anime_genre",
     pk          |-> "id",
     rows        |-> CodeNameCombine,
     constraints |-> {{"code"}},
     fk          |-> {}]

AnimeEpisode ==
    [db_table    |-> "anime_episode",
     pk          |-> "id",
     rows        |-> [id: RowIds, anime: SubjectIds,
                      info_source: InfoSources, id_source: IdSources],
     constraints |-> MetaConstraints(TRUE, {}, SourceMetaConstraints),
     fk          |-> {ForeignKey("anime", "anime", "CASCADE")}]

Anime ==
    [db_table    |-> "anime",
     pk          |-> "subject",
     rows        |-> [subject: SubjectIds, info_source: InfoSources, id_source: IdSources],
     constraints |-> MetaConstraints(TRUE, {}, SourceMetaConstraints),
     fk          |-> {OneToOneField("subject", "subject", "CASCADE")}]

AnimeGenres ==
    ManyToManyField("anime_genres", "anime", "anime", SubjectIds, "animegenre", "anime_genre")

AnimeStaffRelationRole ==
    [db_table    |-> "anime_staff_relation_role",
     pk          |-> "id",
     rows        |-> CodeNameCombine,
     constraints |-> {{"code"}},
     fk          |-> {}]

\* Mutant: the constraint of AnimeStaffRelation leaves the role out.
AnimeStaffRelationNoRole ==
    [db_table    |-> "anime_staff_relation",
     pk          |-> "id",
     rows        |-> [id: RowIds, anime: SubjectIds, staff: RowIds, role: RowIds,
                      description: Descriptions],
     constraints |-> {{"anime", "staff"}},
     fk          |-> {ForeignKey("anime", "anime", "CASCADE"),
                      ForeignKey("staff", "anime_staff", "CASCADE"),
                      ForeignKey("role", "anime_staff_relation_role", "PROTECT")}]

AnimeStaffRelation ==
    [db_table    |-> "anime_staff_relation",
     pk          |-> "id",
     rows        |-> [id: RowIds, anime: SubjectIds, staff: RowIds, role: RowIds,
                      description: Descriptions],
     constraints |-> {{"anime", "staff", "role"}},
     fk          |-> {ForeignKey("anime", "anime", "CASCADE"),
                      ForeignKey("staff", "anime_staff", "CASCADE"),
                      ForeignKey("role", "anime_staff_relation_role", "PROTECT")}]

AnimeCharacterRelationRole ==
    [db_table    |-> "anime_character_relation_role",
     pk          |-> "id",
     rows        |-> CodeNameCombine,
     constraints |-> {{"code"}},
     fk          |-> {}]

\* Mutant: Meta.constraints of AnimeCharacterRelation left out.
AnimeCharacterRelationNoConstraint ==
    [db_table    |-> "anime_character_relation",
     pk          |-> "id",
     rows        |-> [id: RowIds, anime: SubjectIds, character: RowIds, role: RowIds,
                      description: Descriptions],
     constraints |-> {},
     fk          |-> {ForeignKey("anime", "anime", "CASCADE"),
                      ForeignKey("character", "anime_character", "CASCADE"),
                      ForeignKey("role", "anime_character_relation_role", "PROTECT")}]

AnimeCharacterRelation ==
    [db_table    |-> "anime_character_relation",
     pk          |-> "id",
     rows        |-> [id: RowIds, anime: SubjectIds, character: RowIds, role: RowIds,
                      description: Descriptions],
     constraints |-> {{"anime", "character", "role"}},
     fk          |-> {ForeignKey("anime", "anime", "CASCADE"),
                      ForeignKey("character", "anime_character", "CASCADE"),
                      ForeignKey("role", "anime_character_relation_role", "PROTECT")}]

GalgameProducer ==
    [db_table    |-> "galgame_producer",
     pk          |-> "id",
     rows        |-> SourceRows,
     constraints |-> MetaConstraints(TRUE, {}, SourceMetaConstraints),
     fk          |-> {}]

GalgameStaff ==
    [db_table    |-> "galgame_staff",
     pk          |-> "id",
     rows        |-> SourceRows,
     constraints |-> MetaConstraints(TRUE, {}, SourceMetaConstraints),
     fk          |-> {}]

\* Mutant: Meta.constraints of GalgameCharacterTrait left out.
GalgameCharacterTraitNoConstraint ==
    [db_table    |-> "galgame_character_trait",
     pk          |-> "id",
     rows        |-> CodeNameCombine,
     constraints |-> {},
     fk          |-> {}]

GalgameCharacterTrait ==
    [db_table    |-> "galgame_character_trait",
     pk          |-> "id",
     rows        |-> CodeNameCombine,
     constraints |-> {{"code"}},
     fk          |-> {}]

GalgameCharacter ==
    [db_table    |-> "galgame_character",
     pk          |-> "id",
     rows        |-> SourceRows,
     constraints |-> MetaConstraints(TRUE, {}, SourceMetaConstraints),
     fk          |-> {}]

GalgameCharacterTraits ==
    ManyToManyField("galgame_character_traits", "galgamecharacter", "galgame_character",
                    RowIds, "galgamecharactertrait", "galgame_character_trait")

GalgameCharacterActors ==
    ManyToManyField("galgame_character_actors", "galgamecharacter", "galgame_character",
                    RowIds, "galgamestaff", "galgame_staff")

GalgameGenre ==
    [db_table    |-> "galgame_genre",
     pk          |-> "id",
     rows        |-> CodeNameCombine,
     constraints |-> {{"code"}},
     fk          |-> {}]

Galgame ==
    [db_table    |-> "galgame",
     pk          |-> "subject",
     rows        |-> [subject: SubjectIds, info_source: InfoSources, id_source: IdSources],
     constraints |-> MetaConstraints(TRUE, {{"info_source", "id_source"}},
                                     SourceMetaConstraints),
     fk          |-> {OneToOneField("subject", "subject", "CASCADE")}]

GalgameProducers ==
    ManyToManyField("galgame_producers", "galgame", "galgame", SubjectIds,
                    "galgameproducer", "galgame_producer")

GalgameGenres ==
    ManyToManyField("galgame_genres", "galgame", "galgame", SubjectIds,
                    "galgamegenre", "galgame_genre")

GalgameStaffRelationRole ==
    [db_table    |-> "galgame_staff_relation_role",
     pk          |-> "id",
     rows        |-> CodeNameCombine,
     constraints |-> {{"code"}},
     fk          |-> {}]

\* Mutant: the staff field of GalgameStaffRelation is on_delete=PROTECT.
GalgameStaffRelationProtectStaff ==
    [db_table    |-> "galgame_staff_relation",
     pk          |-> "id",
     rows        |-> [id: RowIds, galgame: SubjectIds, staff: RowIds, role: RowIds,
                      description: Descriptions],
     constraints |-> {{"galgame", "staff", "role"}},
     fk          |-> {ForeignKey("galgame", "galgame", "CASCADE"),
                      ForeignKey("staff", "galgame_staff", "PROTECT"),
                      ForeignKey("role", "galgame_staff_relation_role", "PROTECT")}]

GalgameStaffRelation ==
    [db_table    |-> "galgame_staff_relation",
     pk          |-> "id",
     rows        |-> [id: RowIds, galgame: SubjectIds, staff: RowIds, role: RowIds,
                      description: Descriptions],
     constraints |-> {{"galgame", "staff", "role"}},
     fk          |-> {ForeignKey("galgame", "galgame", "CASCADE"),
                      ForeignKey("staff", "galgame_staff", "CASCADE"),
                      ForeignKey("role", "galgame_staff_relation_role", "PROTECT")}]

GalgameCharacterRelation ==
    [db_table    |-> "galgame_character_relation",
     pk          |-> "id",
     rows        |-> [id: RowIds, galgame: SubjectIds, character: RowIds,
                      description: Descriptions],
     constraints |-> {{"galgame", "character"}},
     fk          |-> {ForeignKey("galgame", "galgame", "CASCADE"),
                      ForeignKey("character", "galgame_character", "CASCADE")}]

\* Mutant: Meta.constraints of PendingUpdate left out.
PendingUpdateNoConstraint ==
    [db_table    |-> "pending_update",
     pk          |-> "id",
     rows        |-> [id: RowIds, subject: SubjectIds, next_update_time: Times,
                      attempt_count: 0..MaxAttempts, latest_log: Logs],
     constraints |-> {},
     fk          |-> {ForeignKey("subject", "subject", "CASCADE")}]

PendingUpdate ==
    [db_table    |-> "pending_update",
     pk          |-> "id",
     rows        |-> [id: RowIds, subject: SubjectIds, next_update_time: Times,
                      attempt_count: 0..MaxAttempts, latest_log: Logs],
     constraints |-> {{"subject"}},
     fk          |-> {ForeignKey("subject", "subject", "CASCADE")}]

---------------------------------------------------------------------------
(* The schema: every table of the application, by db_table *)

Tables ==
    {"subject_status", "subject", "subject_relation_type", "subject_relation",
     "anime_staff", "anime_character", "anime_character_actors", "anime_genre",
     "anime_episode", "anime", "anime_genres", "anime_staff_relation_role",
     "anime_staff_relation", "anime_character_relation_role",
     "anime_character_relation", "galgame_producer", "galgame_staff",
     "galgame_character_trait", "galgame_character", "galgame_character_traits",
     "galgame_character_actors", "galgame_genre", "galgame", "galgame_producers",
     "galgame_genres", "galgame_staff_relation_role", "galgame_staff_relation",
     "galgame_character_relation", "pending_update"}

Model(t) ==
    CASE t = "subject_status"                -> SubjectStatus
      [] t = "subject"                       -> Subject
      [] t = "subject_relation_type"         -> SubjectRelationType
      [] t = "subject_relation"              -> SubjectRelation
      [] t = "anime_staff"                   -> AnimeStaff
      [] t = "anime_character"               -> AnimeCharacter
      [] t = "anime_character_actors"        -> AnimeCharacterActors
      [] t = "anime_genre"                   -> AnimeGenre
      [] t = "anime_episode"                 -> AnimeEpisode
      [] t = "anime"                         -> Anime
      [] t = "anime_genres"                  -> AnimeGenres
      [] t = "anime_staff_relation_role"     -> AnimeStaffRelationRole
      [] t = "anime_staff_relation"          -> AnimeStaffRelation
      [] t = "anime_character_relation_role" -> AnimeCharacterRelationRole
      [] t = "anime_character_relation"      -> AnimeCharacterRelation
      [] t = "galgame_producer"              -> GalgameProducer
      [] t = "galgame_staff"                 -> GalgameStaff
      [] t = "galgame_character_trait"       -> GalgameCharacterTrait
      [] t = "galgame_character"             -> GalgameCharacter
      [] t = "galgame_character_traits"      -> GalgameCharacterTraits
      [] t = "galgame_character_actors"      -> GalgameCharacterActors
      [] t = "galgame_genre"                 -> GalgameGenre
      [] t = "galgame"                       -> Galgame
      [] t = "galgame_producers"             -> GalgameProducers
      [] t = "galgame_genres"                -> GalgameGenres
      [] t = "galgame_staff_relation_role"   -> GalgameStaffRelationRole
      [] t = "galgame_staff_relation"        -> GalgameStaffRelation
      [] t = "galgame_character_relation"    -> GalgameCharacterRelation
      [] t = "pending_update"                -> PendingUpdate

\* The tables of the classes that derive from Source (carry a provenance pair).
SourcedTables ==
    {"subject", "anime", "galgame", "anime_staff", "anime_character",
     "anime_episode", "galgame_producer", "galgame_staff", "galgame_character"}

---------------------------------------------------------------------------
(* The store: what a write checks and what a delete collects *)

PkOf(t, r) == r[Model(t).pk]

Pks(d, t) == {PkOf(t, r) : r \in d[t]}

RowAt(d, t, k) == CHOOSE r \in d[t] : PkOf(t, r) = k

\* Every set of columns on which table t admits no two equal rows: the primary
\* key, the UniqueConstraint entries of Meta, and each OneToOneField column.
UniqueSets(t) ==
    {{Model(t).pk}} \cup Model(t).constraints
        \cup {{f.field} : f \in {g \in Model(t).fk : g.unique}}

\* r collides with one of `others` on a unique set of t.
ViolatesUnique(t, r, others) ==
    \E u \in UniqueSets(t) : \E o \in others : \A c \in u : o[c] = r[c]

\* Mutant: relation columns carry no database constraint.
NoForeignKeyCheck(d, t, r) == FALSE

\* r points, through a relation field of t, at a row that does not exist.
ViolatesForeignKey(d, t, r) ==
    \E f \in Model(t).fk : r[f.field] \notin Pks(d, f.to)

\* Every stored row, as a pair <<table, pk>>.
Stored(d) == UNION {{<<t, PkOf(t, r)>> : r \in d[t]} : t \in Tables}

\* Mutant: the collector follows a CASCADE field in both directions, and also
\* takes the rows that a collected row points at.
CascadeStepBothWays(d, C) ==
    {c \in Stored(d) :
        \E f \in Model(c[1]).fk :
            /\ f.on_delete = "CASCADE"
            /\ <<f.to, RowAt(d, c[1], c[2])[f.field]>> \in C}
    \cup {c \in Stored(d) :
            \E b \in C \cap Stored(d) : \E f \in Model(b[1]).fk :
                /\ f.on_delete = "CASCADE"
                /\ c = <<f.to, RowAt(d, b[1], b[2])[f.field]>>}

\* One round of the deletion collector: the rows that point, through a CASCADE
\* field, at a row already collected.
CascadeStep(d, C) ==
    {c \in Stored(d) :
        \E f \in Model(c[1]).fk :
            /\ f.on_delete = "CASCADE"
            /\ <<f.to, RowAt(d, c[1], c[2])[f.field]>> \in C}

\* Mutant: the collector does not follow cascades beyond the first level.
CollectDirect(d, C) == C \cup CascadeStep(d, C)

RECURSIVE Collect(_, _)
\* The closure of C under CASCADE: everything a delete of C takes with it.
Collect(d, C) ==
    LET D == C \cup CascadeStep(d, C)
    IN  IF D = C THEN C ELSE Collect(d, D)

\* Mutant: PROTECT is not honoured.
NeverProtected(d, C) == FALSE

\* Some row points, through a PROTECT field, at a collected row.
Protected(d, C) ==
    \E t \in Tables : \E f \in Model(t).fk :
        /\ f.on_delete = "PROTECT"
        /\ \E r \in d[t] : <<f.to, r[f.field]>> \in C

\* d without the collected rows.
Without(d, C) ==
    [t \in Tables |-> {r \in d[t] : <<t, PkOf(t, r)>> \notin C}]

---------------------------------------------------------------------------
(* Operations *)

\* What a call hands back: the operation, its table and row, how it ended, and
\* (from delete()) the rows it deleted, as pairs <<table, pk>>.
Outcome(op, t, r, outcome) ==
    [op |-> op, table |-> t, row |-> r, outcome |-> outcome, deleted |-> {}]

\* Mutant: the store also refuses an Anime / Galgame row whose Subject is of
\* another subject_type.
RejectsMismatchedType(d, t, r, others) ==
    \/ ViolatesUnique(t, r, others)
    \/ ViolatesForeignKey(d, t, r)
    \/ /\ t \in {"anime", "galgame"}
       /\ \E s \in d["subject"] : s.id = r.subject /\ s.subject_type # t

\* Whether the store rejects writing r into t beside the rows `others`.
Rejects(d, t, r, others) ==
    ViolatesUnique(t, r, others) \/ ViolatesForeignKey(d, t, r)

\* Model.objects.create(**r): an INSERT of r into table t.
Insert(t, r) ==
    IF Rejects(db, t, r, db[t])
    THEN /\ db' = db
         /\ last' = Outcome("insert", t, r, "IntegrityError")
    ELSE /\ db' = [db EXCEPT ![t] = @ \cup {r}]
         /\ last' = Outcome("insert", t, r, "ok")

\* Mutant: the UPDATE has no WHERE clause; it sets the columns that are not
\* keys in every row of the table.
UpdateEveryRow(t, r) ==
    /\ PkOf(t, r) \in Pks(db, t)
    /\ LET old  == RowAt(db, t, PkOf(t, r))
           keys == UNION UniqueSets(t)
       IN  IF Rejects(db, t, r, db[t] \ {old})
           THEN /\ db' = db
                /\ last' = Outcome("update", t, r, "IntegrityError")
           ELSE /\ db' = [db EXCEPT ![t] =
                             {[c \in DOMAIN o |-> IF c \in keys THEN o[c] ELSE r[c]] :
                                  o \in @ \ {old}} \cup {r}]
                /\ last' = Outcome("update", t, r, "ok")

\* instance.save() of a stored row: an UPDATE of the row of t whose primary key
\* is that of r, to r.
Update(t, r) ==
    /\ PkOf(t, r) \in Pks(db, t)
    /\ LET old == RowAt(db, t, PkOf(t, r))
       IN  IF Rejects(db, t, r, db[t] \ {old})
           THEN /\ db' = db
                /\ last' = Outcome("update", t, r, "IntegrityError")
           ELSE /\ db' = [db EXCEPT ![t] = (@ \ {old}) \cup {r}]
                /\ last' = Outcome("update", t, r, "ok")

\* instance.delete() of the stored row r of t: the collector gathers what
\* CASCADE reaches and refuses when a PROTECT field points at any of it.
Delete(t, r) ==
    /\ r \in db[t]
    /\ LET C == Collect(db, {<<t, PkOf(t, r)>>})
       IN  IF Protected(db, C)
           THEN /\ db' = db
                /\ last' = Outcome("delete", t, r, "ProtectedError")
           ELSE /\ db' = Without(db, C)
                /\ last' = [Outcome("delete", t, r, "ok") EXCEPT !.deleted = C]

\* Model.objects.filter(pk=k) on table t: the rows read by primary key k; the
\* empty set is the not-found outcome.
Get(d, t, k) == {r \in d[t] : PkOf(t, r) = k}

\* The processes that write to the store side by side.
Writers == {"w1", "w2"}

\* A writer that has no statement under way.
Idle == [pc |-> "idle", table |-> "", row |-> "", outcome |-> ""]

\* What a call of a client method ends in: a returned value, or a raised
\* exception of class `type` with its message and its __cause__.
Ended(kind, value, type, message, cause) ==
    [kind |-> kind, value |-> value, type |-> type, message |-> message,
     cause |-> cause]

\* A client that has made no call yet: `wire` lists the GET requests issued so
\* far, `answers` what the network answered to those of the last call.
NoCall ==
    [calls |-> 0, wire |-> <<>>, method |-> "", arg |-> "", answers |-> <<>>,
     outcome |-> Ended("none", "None", "", <<>>, "None")]

Init ==
    /\ db = [t \in Tables |-> {}]
    /\ last = Outcome("migrate", "", "", "ok")
    /\ attempts = [s \in SubjectIds |-> <<>>]
    /\ writers = [w \in Writers |-> Idle]
    /\ client = NoCall

\* The tables that hold a row.
InUse(d) == {t \in Tables : d[t] # {}}

\* The writes of a workload: W is a set of table sets, each the tables one
\* ingestion scenario touches, and In[t] the rows it may write into t.
NextOn(W, In) ==
    \E t \in UNION W :
        \/ \E r \in In[t] :
              /\ \E w \in W : InUse(db) \cup {t} \subseteq w
              /\ Insert(t, r)
              /\ UNCHANGED <<attempts, writers, client>>
        \/ \E r \in In[t] : Update(t, r) /\ UNCHANGED <<attempts, writers, client>>
        \/ \E r \in db[t] : Delete(t, r) /\ UNCHANGED <<attempts, writers, client>>

---------------------------------------------------------------------------
(* Workloads *)

\* The rows of t with every attribute a workload does not vary held at its
\* default: blank text, no date, a provenance pair of its own per primary key.
Plain ==
    [t \in Tables |->
        {r \in Model(t).rows :
            /\ "info_source" \in DOMAIN r =>
                  r.info_source = "bangumi" /\ r.id_source = PkOf(t, r)
            /\ "subject_type" \in DOMAIN r =>
                  r.subject_type = "anime" /\ r.date = "NULL" /\ r.ambiguous_date = "NULL"
            /\ "description" \in DOMAIN r => r.description = ""
            /\ "code" \in DOMAIN r =>
                  r.code = (IF r.id = 1 THEN "c1" ELSE "c2") /\ r.name = "n1"
            /\ "severity" \in DOMAIN r =>
                  r.severity = "info" /\ r.headline = "" /\ ~r.is_resolved /\ ~r.is_locked
            /\ "attempt_count" \in DOMAIN r =>
                  r.attempt_count = 0 /\ r.latest_log = "" /\ r.next_update_time = "t0"}]

\* Provenance workload: sourced rows that vary in their (info_source, id_source).
SourceTables ==
    {{"subject", "anime", "anime_episode"}, {"subject", "galgame"},
     {"anime_staff"}, {"anime_character"}, {"galgame_producer"},
     {"galgame_staff"}, {"galgame_character"}}

SourceIn ==
    [t \in UNION SourceTables |->
        {r \in Model(t).rows :
            /\ r.info_source \in (IF t \in {"subject", "anime", "anime_episode"}
                                  THEN {"bangumi"} ELSE InfoSources)
            /\ t = "subject" =>
                  r.subject_type = "anime" /\ r.date = "NULL" /\ r.ambiguous_date = "NULL"}]

NextSource == NextOn(SourceTables, SourceIn)

SpecSource == Init /\ [][NextSource]_vars

---------------------------------------------------------------------------
(* Provenance *)

SamePair(r, o) == r.info_source = o.info_source /\ r.id_source = o.id_source

\* C1: in every table of a sourced entity type no two rows share the same
\* (info_source, id_source), and an insert that was accepted left no other row
\* of its table with its pair (a duplicate is refused, never stored).
C1_ProvenanceUnique ==
    /\ \A t \in SourcedTables : \A r, o \in db[t] : SamePair(r, o) => r = o
    /\ (last.op = "insert" /\ last.table \in SourcedTables /\ last.outcome = "ok") =>
          \A o \in db[last.table] : SamePair(last.row, o) => o = last.row

\* The columns that identify a role-link of an association table.
LinkIdentity(t) ==
    CASE t = "anime_staff_relation"       -> {"anime", "staff", "role"}
      [] t = "anime_character_relation"   -> {"anime", "character", "role"}
      [] t = "galgame_staff_relation"     -> {"galgame", "staff", "role"}
      [] t = "galgame_character_relation" -> {"galgame", "character"}

AssociationTables ==
    {"anime_staff_relation", "anime_character_relation",
     "galgame_staff_relation", "galgame_character_relation"}

\* The write of row r into t repeats the provenance pair, or the link identity,
\* of a row that d already stores under another primary key.
Duplicates(d, t, r) ==
    \E o \in d[t] :
        /\ PkOf(t, o) # PkOf(t, r)
        /\ \/ t \in SourcedTables /\ SamePair(r, o)
           \/ t \in AssociationTables /\ \A c \in LinkIdentity(t) : r[c] = o[c]

\* C6: a write (insert or update) that duplicates an existing provenance pair
\* or an existing (parent, person, role) triple returns a uniqueness error and
\* leaves the store as it was.
C6_DuplicateSurfaced ==
    [][(last'.op \in {"insert", "update"} /\ Duplicates(db, last'.table, last'.row))
          => (last'.outcome = "IntegrityError" /\ db' = db)]_vars

---------------------------------------------------------------------------
(* Concurrent writers *)

\* The tables the writers insert into: Subject, whose Meta drops the provenance
\* constraint, and Galgame, whose Meta restates it.
WriterTables == {"subject", "galgame"}

\* The rows a writer may insert: sourced rows of one origin.
WriterIn == [t \in WriterTables |-> {r \in SourceIn[t] : r.info_source = "bangumi"}]

\* The primary keys of the Subject inserts that are under way.
InFlight == {writers[w].row.id : w \in {v \in Writers : writers[v].table = "subject"
                                                       /\ writers[v].pc = "sent"}}

\* Writer w calls Model.objects.create(**r) on the class of table t: the INSERT
\* is on its way to the store.  A Subject gets a fresh uuid4 primary key.
Send(w, t, r) ==
    /\ writers[w].pc = "idle"
    /\ t = "subject" => r.id \notin Pks(db, "subject") \cup InFlight
    /\ writers' = [writers EXCEPT ![w] = [pc |-> "sent", table |-> t, row |-> r,
                                          outcome |-> ""]]
    /\ UNCHANGED <<db, last, attempts, client>>

\* The store executes the INSERT of writer w.  models.py opens no transaction:
\* the statement runs in autocommit, is atomic, and checks the constraints the
\* table has against the committed rows.
Execute(w) ==
    /\ writers[w].pc = "sent"
    /\ Insert(writers[w].table, writers[w].row)
    /\ writers' = [writers EXCEPT ![w].pc = "done", ![w].outcome = last'.outcome]
    /\ UNCHANGED <<attempts, client>>

\* create() returns to, or raises in, writer w.
Return(w) ==
    /\ writers[w].pc = "done"
    /\ writers' = [writers EXCEPT ![w] = Idle]
    /\ UNCHANGED <<db, last, attempts, client>>

NextWriters ==
    \E w \in Writers :
        \/ \E t \in WriterTables : \E r \in WriterIn[t] : Send(w, t, r)
        \/ Execute(w)
        \/ Return(w)

SpecWriters == Init /\ [][NextWriters]_vars

\* C12: when two writers insert rows of the same sourced table with the same
\* (info_source, id_source), at most one of the inserts takes effect, in every
\* interleaving, and the table never holds two rows with that pair.
C12_WritersSerialized ==
    \A v, w \in Writers :
        (/\ v # w
         /\ writers[v].pc = "done" /\ writers[w].pc = "done"
         /\ writers[v].table = writers[w].table
         /\ SamePair(writers[v].row, writers[w].row))
          => /\ ~(writers[v].outcome = "ok" /\ writers[w].outcome = "ok")
             /\ Cardinality({r \in db[writers[v].table] :
                                SamePair(r, writers[v].row)}) <= 1

---------------------------------------------------------------------------
(* Subject and its detail tables *)

DetailTables == {"anime", "galgame"}

\* The subject_type a detail table is meant for.
DetailType(t) == IF t = "anime" THEN "anime" ELSE "galgame"

\* Detail workload: Subjects of several types and their Anime / Galgame rows.
DetailWorkload == {{"subject", "anime", "galgame"}}

DetailIn ==
    [t \in UNION DetailWorkload |->
        IF t = "subject"
        THEN {r \in Model(t).rows :
                 /\ r.subject_type \in {"anime", "galgame", "manga"}
                 /\ r.date = "NULL" /\ r.ambiguous_date = "NULL"
                 /\ r.info_source = "bangumi" /\ r.id_source = r.id}
        ELSE Plain[t]]

NextDetail == NextOn(DetailWorkload, DetailIn)

SpecDetail == Init /\ [][NextDetail]_vars

\* C7: every detail row is keyed by the id of a stored Subject, a detail table
\* holds at most one row per Subject, and an insert of a detail row whose id is
\* not the id of a stored Subject is refused and stores nothing.
C7_DetailNeedsSubject ==
    /\ \A t \in DetailTables : \A r \in db[t] : r.subject \in Pks(db, "subject")
    /\ \A t \in DetailTables : \A r, o \in db[t] : r.subject = o.subject => r = o
    /\ (/\ last.op = "insert"
        /\ last.table \in DetailTables
        /\ last.row.subject \notin Pks(db, "subject"))
          => (last.outcome = "IntegrityError" /\ last.row \notin db[last.table])

\* C7 witness: a detail insert for an absent Subject was refused while another
\* Subject is stored with no detail row at all.
C7_Witness ==
    /\ last.op = "insert" /\ last.table \in DetailTables
    /\ last.outcome = "IntegrityError"
    /\ last.row.subject \notin Pks(db, "subject")
    /\ \E s \in db["subject"] : \A t \in DetailTables : Get(db, t, s.id) = {}

---------------------------------------------------------------------------
(* Status and pending-update bookkeeping *)

BookkeepingWorkload == {{"subject", "subject_status"}, {"subject", "pending_update"}}

BookkeepingIn ==
    [t \in UNION BookkeepingWorkload |->
        CASE t = "subject_status" ->
                {r \in Model(t).rows :
                    r.severity \in {"info", "error"} /\ r.headline = "" /\ ~r.is_resolved}
          [] t = "pending_update" ->
                {r \in Model(t).rows : r.latest_log = "" /\ r.next_update_time = "t0"}
          [] OTHER -> Plain[t]]

NextBookkeeping == NextOn(BookkeepingWorkload, BookkeepingIn)

SpecBookkeeping == Init /\ [][NextBookkeeping]_vars

\* Table t holds at most one row per Subject.
OnePerSubject(d, t) == \A r, o \in d[t] : r.subject = o.subject => r = o

\* The write of r into t targets a Subject that another row of t already has.
AlreadyHas(d, t, r) == \E o \in d[t] : o.subject = r.subject /\ PkOf(t, o) # PkOf(t, r)

\* C9: there is at most one PendingUpdate row per Subject, and enrolling a
\* Subject that already has one is refused and changes nothing.
C9_OnePendingUpdate ==
    [][/\ OnePerSubject(db', "pending_update")
       /\ (/\ last'.op = "insert"
           /\ last'.table = "pending_update"
           /\ AlreadyHas(db, "pending_update", last'.row))
             => (last'.outcome = "IntegrityError" /\ db' = db)]_vars

\* C9 witness: a second enrollment of an enrolled Subject was just refused.
C9_Witness ==
    /\ last.op = "insert" /\ last.table = "pending_update"
    /\ last.outcome = "IntegrityError"
    /\ last.row.subject \in Pks(db, "subject")
    /\ AlreadyHas(db, "pending_update", last.row)

\* C10 as stated: at most one SubjectStatus row per Subject, and writing a
\* status (a new row, under a primary key of its own) for a stored Subject
\* never fails: it creates the row when the Subject has none and replaces the
\* values of the existing row otherwise.
C10_StatusUpsert ==
    [][/\ OnePerSubject(db', "subject_status")
       /\ (/\ last'.op = "insert"
           /\ last'.table = "subject_status"
           /\ Get(db, "subject_status", last'.row.id) = {}
           /\ last'.row.subject \in Pks(db, "subject"))
             => /\ last'.outcome = "ok"
                /\ \E r \in db'["subject_status"] :
                      /\ r.subject = last'.row.subject
                      /\ r.severity = last'.row.severity
                      /\ r.is_locked = last'.row.is_locked]_vars

\* C10 amended: at most one SubjectStatus row per Subject.  An insert for a
\* Subject that has none creates the row; an insert for a Subject that already
\* has a row is refused with a uniqueness error and changes nothing (no
\* upsert); an update of the existing row that keeps its Subject replaces its
\* values and adds no row.
C10_StatusOnePerSubject ==
    [][/\ OnePerSubject(db', "subject_status")
       /\ (last'.table = "subject_status" /\ last'.row.subject \in Pks(db, "subject")) =>
             /\ (last'.op = "insert" /\ AlreadyHas(db, "subject_status", last'.row))
                   => (last'.outcome = "IntegrityError" /\ db' = db)
             /\ (/\ last'.op = "insert"
                 /\ \A o \in db["subject_status"] : o.subject # last'.row.subject
                 /\ Get(db, "subject_status", last'.row.id) = {})
                   => (/\ last'.outcome = "ok"
                       /\ db'["subject_status"] = db["subject_status"] \cup {last'.row})
             /\ (/\ last'.op = "update"
                 /\ \E o \in db["subject_status"] :
                       o.id = last'.row.id /\ o.subject = last'.row.subject)
                   => (/\ last'.outcome = "ok"
                       /\ last'.row \in db'["subject_status"]
                       /\ Cardinality(db'["subject_status"])
                             = Cardinality(db["subject_status"]))]_vars

\* C10 witness: a second status insert for a Subject was just refused and the
\* stored row keeps a severity other than the one the insert carried.
C10_Witness ==
    /\ last.op = "insert" /\ last.table = "subject_status"
    /\ last.outcome = "IntegrityError"
    /\ \E o \in db["subject_status"] :
          /\ o.subject = last.row.subject
          /\ o.id # last.row.id
          /\ o.severity # last.row.severity

\* C18: a locked SubjectStatus row is left as it is by every operation that is
\* not a write to that row: an insert, update or delete on another row or
\* table, and every refused operation.  It leaves the table only with its
\* Subject, whose delete cascades to it; its values are never changed.
C18_LockedRowUntouched ==
    [][\A r \in db["subject_status"] :
          (r.is_locked /\ ~(last'.table = "subject_status" /\ last'.row.id = r.id)) =>
              /\ last'.outcome # "ok" => r \in db'["subject_status"]
              /\ \A o \in db'["subject_status"] : o.id = r.id => o = r
              /\ r \notin db'["subject_status"] =>
                    /\ last'.op = "delete" /\ last'.table = "subject"
                    /\ last'.row.id = r.subject]_vars

\* C18 witness: another status row was just updated, to another severity than
\* that of a stored locked row.
C18_Witness ==
    /\ last.op = "update" /\ last.table = "subject_status" /\ last.outcome = "ok"
    /\ \E r \in db["subject_status"] :
          /\ r.is_locked
          /\ r.id # last.row.id
          /\ r.severity # last.row.severity

---------------------------------------------------------------------------
(* The states of a SubjectStatus *)

\* Status workload: one status row per Subject, over every severity,
\* is_resolved and is_locked.
StatusWorkload == {{"subject", "subject_status"}}

StatusIn ==
    [t \in UNION StatusWorkload |->
        IF t = "subject_status"
        THEN {r \in Model(t).rows : r.id = r.subject /\ r.headline = ""}
        ELSE Plain[t]]

NextStatus == NextOn(StatusWorkload, StatusIn)

SpecStatus == Init /\ [][NextStatus]_vars

\* The states the claim admits for a row.
StatusStates ==
    {r \in Model("subject_status").rows : r.severity \in SEVERITY_CHOICES}

\* C17: every stored SubjectStatus row has a severity among info, warning and
\* error (and boolean is_resolved and is_locked), and the store has no
\* transition table: an update of a stored row, for the same Subject, to any
\* such state is accepted and stored.
C17_StatusStatesAndTransitions ==
    [][/\ db'["subject_status"] \subseteq StatusStates
       /\ (/\ last'.op = "update"
           /\ last'.table = "subject_status"
           /\ last'.row \in StatusStates
           /\ \E o \in db["subject_status"] :
                 o.id = last'.row.id /\ o.subject = last'.row.subject)
             => (last'.outcome = "ok" /\ last'.row \in db'["subject_status"])]_vars

---------------------------------------------------------------------------
(* The lifecycle of a PendingUpdate *)

\* Mutant: attempt_count starts at one.
PendingUpdateDefaultsOne == [attempt_count |-> 1, latest_log |-> ""]

\* What create() stores in the fields the caller leaves out:
\* attempt_count = IntegerField(default=0), latest_log = TextField(blank=True).
PendingUpdateDefaults == [attempt_count |-> 0, latest_log |-> ""]

\* The log texts a processing attempt may write.
AttemptLogs == Logs \ {""}

\* PendingUpdate.objects.create(subject=s, next_update_time=time): enrolls
\* Subject s.  The row gets a primary key not in use and the field defaults.
Enroll(s, time) ==
    /\ \E id \in RowIds \ Pks(db, "pending_update") :
          Insert("pending_update",
                 [id |-> id, subject |-> s, next_update_time |-> time,
                  attempt_count |-> PendingUpdateDefaults.attempt_count,
                  latest_log |-> PendingUpdateDefaults.latest_log])
    /\ attempts' = IF last'.outcome = "ok"
                   THEN [attempts EXCEPT ![s] = <<>>]
                   ELSE attempts
    /\ UNCHANGED <<writers, client>>

\* A processing attempt on enrolled Subject s (the scheduler is not part of
\* models.py; this is its contract): it saves the Subject's PendingUpdate row
\* with attempt_count incremented, latest_log rewritten to the attempt's log
\* and next_update_time recomputed.
Attempt(s, log, time) ==
    /\ \E p \in db["pending_update"] :
          /\ p.subject = s
          /\ p.attempt_count < MaxAttempts
          /\ Update("pending_update",
                    [p EXCEPT !.attempt_count = @ + 1,
                              !.latest_log = log,
                              !.next_update_time = time])
    /\ attempts' = IF last'.outcome = "ok"
                   THEN [attempts EXCEPT ![s] = Append(@, log)]
                   ELSE attempts
    /\ UNCHANGED <<writers, client>>

\* delete() of a Subject or of a PendingUpdate row; a Subject that is left
\* without a PendingUpdate row is no longer enrolled.
Unenroll(t, r) ==
    /\ Delete(t, r)
    /\ attempts' = [s \in SubjectIds |->
                       IF \E p \in db'["pending_update"] : p.subject = s
                       THEN attempts[s] ELSE <<>>]
    /\ UNCHANGED <<writers, client>>

\* Subjects are created, enrolled, processed and deleted.
NextPending ==
    \/ \E r \in Plain["subject"] :
          Insert("subject", r) /\ UNCHANGED <<attempts, writers, client>>
    \/ \E s \in SubjectIds : \E time \in Times : Enroll(s, time)
    \/ \E s \in SubjectIds : \E log \in AttemptLogs : \E time \in Times :
          Attempt(s, log, time)
    \/ \E t \in {"subject", "pending_update"} : \E r \in db[t] : Unenroll(t, r)

SpecPending == Init /\ [][NextPending]_vars

\* C11: a PendingUpdate row is created with attempt_count = 0; after n
\* processing attempts since the enrollment its attempt_count is n and its
\* latest_log is the log of the n-th attempt, whatever the earlier logs were.
C11_AttemptsCounted ==
    \A p \in db["pending_update"] :
        LET h == attempts[p.subject]
        IN  /\ p.attempt_count = Len(h)
            /\ h # <<>> => p.latest_log = h[Len(h)]

\* C11 witness: two attempts with different logs have been made on an enrolled
\* Subject; the row counts two and carries the second log.
C11_Witness ==
    \E p \in db["pending_update"] :
        /\ Len(attempts[p.subject]) = 2
        /\ attempts[p.subject][1] # attempts[p.subject][2]
        /\ p.attempt_count = 2
        /\ p.latest_log = attempts[p.subject][2]

---------------------------------------------------------------------------
(* Deleting a Subject *)

\* Cascade workload: a Subject with its detail rows, bookkeeping rows, edges,
\* associations, episodes and many-to-many links.
CascadeWorkload ==
    {{"subject", "anime", "galgame", "subject_status", "pending_update"},
     {"subject", "subject_relation_type", "subject_relation"},
     {"subject", "anime", "anime_staff", "anime_staff_relation_role",
      "anime_staff_relation", "anime_episode"},
     {"subject", "anime", "anime_character", "anime_character_relation_role",
      "anime_character_relation", "anime_genre", "anime_genres"},
     {"subject", "galgame", "galgame_staff", "galgame_staff_relation_role",
      "galgame_staff_relation", "galgame_producer", "galgame_producers"},
     {"subject", "galgame", "galgame_character", "galgame_character_relation",
      "galgame_genre", "galgame_genres"}}

\* Subjects, detail rows, edges, links and episodes over all Subject ids; one
\* row of each people and lookup table.
CascadeIn ==
    [t \in UNION CascadeWorkload |->
        CASE t \in {"subject", "anime", "galgame", "anime_episode"} -> Plain[t]
          [] t \in {"subject_status", "pending_update"} ->
                {r \in Plain[t] : r.id = r.subject}
          [] t = "subject_relation" -> {r \in Model(t).rows : r.type = 1}
          [] t \in {"anime_staff_relation", "galgame_staff_relation"} ->
                {r \in Plain[t] : r.staff = 1 /\ r.role = 1}
          [] t = "anime_character_relation" ->
                {r \in Plain[t] : r.character = 1 /\ r.role = 1}
          [] t = "galgame_character_relation" -> {r \in Plain[t] : r.character = 1}
          [] t \in {"anime_genres", "galgame_producers", "galgame_genres"} ->
                {r \in Model(t).rows : r.b = 1}
          [] OTHER -> {r \in Plain[t] : r.id = 1}]

NextCascade == NextOn(CascadeWorkload, CascadeIn)

SpecCascade == Init /\ [][NextCascade]_vars

\* The rows of d that reference Subject s: through a relation field to Subject,
\* or through a relation field to the detail row keyed by s.
ReferencesTo(d, s) ==
    {c \in Stored(d) :
        \E f \in Model(c[1]).fk :
            /\ f.to \in {"subject"} \cup DetailTables
            /\ RowAt(d, c[1], c[2])[f.field] = s}

\* C2: a delete of a Subject succeeds and leaves no Subject row, no detail,
\* SubjectStatus, PendingUpdate or SubjectRelation (source or target) row, and
\* no association, episode or link row of its detail row; in every reachable
\* state every relation field of every row points at a stored row (no orphans).
C2_DeleteSubjectCascades ==
    /\ \A t \in Tables : \A r \in db[t] : ~ViolatesForeignKey(db, t, r)
    /\ (last.op = "delete" /\ last.table = "subject") =>
          /\ last.outcome = "ok"
          /\ Get(db, "subject", last.row.id) = {}
          /\ ReferencesTo(db, last.row.id) = {}

\* C2 witness: the delete of a Subject just took its Anime row, a staff
\* association of that row and an episode of it along.
C2_Witness ==
    /\ last.op = "delete" /\ last.table = "subject" /\ last.outcome = "ok"
    /\ <<"anime", last.row.id>> \in last.deleted
    /\ \E c \in last.deleted : c[1] = "anime_staff_relation"
    /\ \E c \in last.deleted : c[1] = "anime_episode"

---------------------------------------------------------------------------
(* Associations and lookup rows *)

\* Link workload: one catalog item, one person, and the role-links, edges and
\* many-to-many links between them and the lookup rows.
LinkWorkload ==
    {{"subject", "anime", "anime_staff", "anime_staff_relation_role",
      "anime_staff_relation"},
     {"subject", "anime", "anime_character", "anime_character_relation_role",
      "anime_character_relation"},
     {"subject", "galgame", "galgame_staff", "galgame_staff_relation_role",
      "galgame_staff_relation"},
     {"subject", "galgame", "galgame_character", "galgame_character_relation"},
     {"subject", "subject_relation_type", "subject_relation"},
     {"subject", "anime", "anime_genre", "anime_genres"},
     {"subject", "galgame", "galgame_genre", "galgame_genres"},
     {"galgame_character", "galgame_character_trait", "galgame_character_traits"}}

LookupTables ==
    {"subject_relation_type", "anime_genre", "galgame_genre",
     "galgame_character_trait", "anime_staff_relation_role",
     "anime_character_relation_role", "galgame_staff_relation_role"}

\* The lookup tables a PROTECT relation field points at.
ProtectedLookups ==
    {"subject_relation_type", "anime_staff_relation_role",
     "anime_character_relation_role", "galgame_staff_relation_role"}

\* The columns of an association row that name the item and the person.
PairColumns(t) == LinkIdentity(t) \ {"role"}

LinkIn ==
    [t \in UNION LinkWorkload |->
        CASE t \in LookupTables -> Plain[t]
          [] t \in AssociationTables ->
                {r \in Model(t).rows :
                    /\ \A c \in PairColumns(t) : r[c] = 1
                    /\ r.description \in {"d1", "d2"}}
          [] t = "subject_relation" ->
                {r \in Model(t).rows : r.source = 1 /\ r.target = 1}
          [] t \in {"anime_genres", "galgame_genres", "galgame_character_traits"} ->
                {r \in Model(t).rows : r.a = 1}
          [] OTHER -> {r \in Plain[t] : PkOf(t, r) = 1}]

NextLink == NextOn(LinkWorkload, LinkIn)

SpecLink == Init /\ [][NextLink]_vars

\* Rows r and o of association table t name the same link.
SameLink(t, r, o) == \A c \in LinkIdentity(t) : r[c] = o[c]

\* No two rows of an association table name the same link.
LinksUnique(d) ==
    \A t \in AssociationTables : \A r, o \in d[t] : SameLink(t, r, o) => r = o

\* An insert into an association table, under a primary key not in use, whose
\* item, person and role exist.
AddsLink(d, l) ==
    /\ l.op = "insert"
    /\ l.table \in AssociationTables
    /\ Get(d, l.table, l.row.id) = {}
    /\ ~ViolatesForeignKey(d, l.table, l.row)

\* C3 as stated: in every staff/character association table each link carries
\* a role and no two rows share the same (parent item, person, role).
C3_UniqueOnRoleTriple ==
    \A t \in AssociationTables : \A r \in db[t] :
        /\ "role" \in DOMAIN r
        /\ \A o \in db[t] :
              (\A c \in PairColumns(t) \cup {"role"} : r[c] = o[c]) => r = o

\* C3 amended: AnimeStaffRelation, AnimeCharacterRelation and
\* GalgameStaffRelation are unique on (parent item, person, role): a link of an
\* already linked person under another role is accepted, under the same role
\* refused.  GalgameCharacterRelation has no role and is unique on (galgame,
\* character): every second link of a character to a galgame is refused.
C3_UniqueOnLinkIdentity ==
    [][/\ LinksUnique(db')
       /\ AddsLink(db, last') =>
             IF \E o \in db[last'.table] : SameLink(last'.table, last'.row, o)
             THEN last'.outcome = "IntegrityError" /\ db' = db
             ELSE /\ last'.outcome = "ok"
                  /\ db' = [db EXCEPT ![last'.table] = @ \cup {last'.row}]]_vars

\* C3 witness: a staff member was just linked to an anime under a second role.
C3_Witness ==
    /\ last.op = "insert" /\ last.table = "anime_staff_relation"
    /\ last.outcome = "ok"
    /\ \E o \in db["anime_staff_relation"] :
          /\ o.anime = last.row.anime /\ o.staff = last.row.staff
          /\ o.role # last.row.role

\* The rows of d that reference row k of lookup table t.
ReferencesLookup(d, t, k) ==
    {c \in Stored(d) :
        \E f \in Model(c[1]).fk : f.to = t /\ RowAt(d, c[1], c[2])[f.field] = k}

\* C4 as stated: a delete of a lookup row that an association references is
\* refused with a protected-reference error and changes nothing; a delete of
\* an unreferenced lookup row succeeds.
C4_LookupDeleteProtected ==
    [][(last'.op = "delete" /\ last'.table \in LookupTables) =>
          IF ReferencesLookup(db, last'.table, last'.row.id) # {}
          THEN last'.outcome = "ProtectedError" /\ db' = db
          ELSE /\ last'.outcome = "ok"
               /\ db' = [db EXCEPT ![last'.table] = @ \ {last'.row}]]_vars

\* C4 amended: a delete of a relation-type or role row that an association
\* references is refused with a protected-reference error and changes nothing,
\* and succeeds once no association references it.  A genre or character-trait
\* row is referenced through many-to-many link rows only: its delete succeeds
\* even while referenced and removes exactly the row and those link rows.
C4_ProtectTypesAndRoles ==
    [][(last'.op = "delete" /\ last'.table \in LookupTables) =>
          LET refs == ReferencesLookup(db, last'.table, last'.row.id)
          IN  IF last'.table \in ProtectedLookups /\ refs # {}
              THEN last'.outcome = "ProtectedError" /\ db' = db
              ELSE /\ last'.outcome = "ok"
                   /\ \A t \in Tables :
                         db'[t] = {r \in db[t] :
                                      /\ <<t, PkOf(t, r)>> \notin refs
                                      /\ ~(t = last'.table /\ r = last'.row)}]_vars

\* C4 witness: the delete of a role that a staff association references was
\* just refused.
C4_Witness ==
    /\ last.op = "delete" /\ last.table = "anime_staff_relation_role"
    /\ last.outcome = "ProtectedError"
    /\ \E r \in db["anime_staff_relation"] : r.role = last.row.id

\* C5 as stated: adding a link that names a stored link again, with another
\* description, succeeds; afterwards exactly one row names that link and it
\* carries the description just written.
C5_ReAddUpdatesDescription ==
    [][(/\ AddsLink(db, last')
        /\ \E o \in db[last'.table] :
              /\ SameLink(last'.table, last'.row, o)
              /\ o.description # last'.row.description)
          => /\ last'.outcome = "ok"
             /\ \A r \in db'[last'.table] :
                   SameLink(last'.table, last'.row, r) => r = last'.row
             /\ \E r \in db'[last'.table] :
                   /\ SameLink(last'.table, last'.row, r)
                   /\ r.description = last'.row.description]_vars

\* C5 amended: adding a link that names a stored link again (same item, person
\* and role; same galgame and character for GalgameCharacterRelation) with
\* another description is refused with a uniqueness error and changes nothing:
\* exactly one row names the link and it keeps the description of the first
\* write.  The description changes only by an update of the stored row, which
\* succeeds and replaces that row without adding one.
C5_ReAddRefused ==
    [][/\ LinksUnique(db')
       /\ (/\ AddsLink(db, last')
           /\ \E o \in db[last'.table] : SameLink(last'.table, last'.row, o))
             => (last'.outcome = "IntegrityError" /\ db' = db)
       /\ (/\ last'.op = "update"
           /\ last'.table \in AssociationTables
           /\ \E o \in db[last'.table] :
                 o.id = last'.row.id /\ SameLink(last'.table, last'.row, o))
             => /\ last'.outcome = "ok"
                /\ db' = [db EXCEPT ![last'.table] =
                             {r \in @ : r.id # last'.row.id} \cup {last'.row}]]_vars

\* C5 witness: a character link was just added again with another description
\* and refused; the stored link keeps its description.
C5_Witness ==
    /\ last.op = "insert" /\ last.table = "anime_character_relation"
    /\ last.outcome = "IntegrityError"
    /\ \E o \in db["anime_character_relation"] :
          /\ SameLink("anime_character_relation", last.row, o)
          /\ o.id # last.row.id
          /\ o.description # last.row.description

\* C19: no two SubjectRelation rows share the same (source, target, type).
C19_EdgeUnique ==
    \A r, o \in db["subject_relation"] :
        (r.source = o.source /\ r.target = o.target /\ r.type = o.type) => r = o

\* The tables of the person classes.
PersonTables == {"anime_staff", "anime_character", "galgame_staff", "galgame_character"}

\* The tables that hold one row per Subject, keyed by the column `subject`.
OwnedBySubject == {"anime", "galgame", "subject_status", "pending_update"}

\* C21: a delete of a Subject is never refused, whatever its associations
\* reference, and removes only the Subject and its dependents: every lookup,
\* staff, character and producer row stays, every other Subject stays with its
\* detail, status and pending-update rows, and each row removed referenced the
\* deleted Subject or its detail row.
C21_DeleteSubjectFrame ==
    [][(last'.op = "delete" /\ last'.table = "subject") =>
          LET s == last'.row.id
          IN  /\ last'.outcome = "ok"
              /\ \A t \in LookupTables \cup PersonTables \cup {"galgame_producer"} :
                    db'[t] = db[t]
              /\ db'["subject"] = db["subject"] \ {last'.row}
              /\ \A t \in OwnedBySubject : db'[t] = {r \in db[t] : r.subject # s}
              /\ \A t \in Tables :
                    /\ db'[t] \subseteq db[t]
                    /\ \A r \in db[t] \ db'[t] :
                          <<t, PkOf(t, r)>> \in ReferencesTo(db, s) \cup {<<"subject", s>>}]_vars

\* C21 witness: a Subject was just deleted with a staff association of its
\* Anime row; the staff member, the role and another Subject's Anime row remain.
C21_Witness ==
    /\ last.op = "delete" /\ last.table = "subject" /\ last.outcome = "ok"
    /\ \E c \in last.deleted : c[1] = "anime_staff_relation"
    /\ db["anime_staff"] # {} /\ db["anime_staff_relation_role"] # {}
    /\ \E r \in db["anime"] : r.subject # last.row.id

\* C22: a delete of a staff or character row succeeds also while associations
\* link it to catalog items; it removes exactly that row and the rows that
\* reference it, all of them association or many-to-many link rows, so the
\* catalog items, their Subjects and the lookup rows stay as they are; and no
\* stored row references a person that is not stored.
C22_DeletePersonCascades ==
    [][/\ \A t \in Tables : \A r \in db'[t] : \A f \in Model(t).fk :
             f.to \in PersonTables => r[f.field] \in Pks(db', f.to)
       /\ (last'.op = "delete" /\ last'.table \in PersonTables) =>
             LET refs == ReferencesLookup(db, last'.table, last'.row.id)
             IN  /\ last'.outcome = "ok"
                 /\ \A c \in refs : c[1] \notin {"subject", "anime", "galgame"}
                                               \cup LookupTables \cup PersonTables
                 /\ \A t \in Tables :
                       db'[t] = {r \in db[t] :
                                    /\ <<t, PkOf(t, r)>> \notin refs
                                    /\ ~(t = last'.table /\ r = last'.row)}]_vars

\* C22 witness: a staff member linked to a galgame was just deleted with the
\* association; the galgame and the role remain.
C22_Witness ==
    /\ last.op = "delete" /\ last.table = "galgame_staff" /\ last.outcome = "ok"
    /\ \E c \in last.deleted : c[1] = "galgame_staff_relation"
    /\ db["galgame"] # {} /\ db["galgame_staff_relation_role"] # {}

---------------------------------------------------------------------------
(* Lookup rows *)

\* Vocabulary workload: the rows of one lookup table, over every code and name.
LookupWorkload == {{t} : t \in LookupTables}

LookupIn == [t \in LookupTables |-> Model(t).rows]

NextLookup == NextOn(LookupWorkload, LookupIn)

SpecLookup == Init /\ [][NextLookup]_vars

\* C15: no two rows of a lookup table share a code; an insert (under a primary
\* key not in use) of a row whose code a stored row has is refused and changes
\* nothing, and an insert of a row with a new code is accepted, also when a
\* stored row has its name.
C15_LookupCodeUnique ==
    [][/\ \A t \in LookupTables : \A r, o \in db'[t] : r.code = o.code => r = o
       /\ (/\ last'.op = "insert"
           /\ last'.table \in LookupTables
           /\ Get(db, last'.table, last'.row.id) = {})
             => IF \E o \in db[last'.table] : o.code = last'.row.code
                THEN last'.outcome = "IntegrityError" /\ db' = db
                ELSE /\ last'.outcome = "ok"
                     /\ db' = [db EXCEPT ![last'.table] = @ \cup {last'.row}]]_vars

\* C15 witness: a trait was just inserted with the name of a stored trait and
\* another code.
C15_Witness ==
    /\ last.op = "insert" /\ last.table = "galgame_character_trait"
    /\ last.outcome = "ok"
    /\ \E o \in db["galgame_character_trait"] :
          o.id # last.row.id /\ o.name = last.row.name /\ o.code # last.row.code

---------------------------------------------------------------------------
(* Release dates *)

\* Date workload: Subjects over every value of date and ambiguous_date (both
\* DateField(blank=True, null=True)).
DateWorkload == {{"subject"}}

DateIn ==
    [t \in UNION DateWorkload |->
        {r \in Model(t).rows :
            /\ r.subject_type = "anime"
            /\ r.info_source = "bangumi" /\ r.id_source = r.id}]

NextDate == NextOn(DateWorkload, DateIn)

SpecDate == Init /\ [][NextDate]_vars

\* C16: no stored Subject has both date and ambiguous_date populated.
C16_OneDatePopulated ==
    \A s \in db["subject"] : s.date = "NULL" \/ s.ambiguous_date = "NULL"

---------------------------------------------------------------------------
(* The catalog client: class BangumiClient *)

BASE_URL == "https://api.bgm.tv/v0"

\* What the server may hold under a url: JSON documents, or a body that is not
\* JSON.
Documents == {"doc1", "doc2"}

Bodies == Documents \cup {"not json"}

StatusCodes == {200, 404, 500}

Keywords == {"k1"}

\* What requests.get() does: it raises ConnectionError or Timeout, or returns a
\* Response with a status code and a body.
Answers ==
    [kind: {"ConnectionError", "Timeout"}, status_code: {0}, body: {""}]
        \cup [kind: {"Response"}, status_code: StatusCodes, body: Bodies]

\* The answers of the network to the successive GET requests of one call.
Nets == [1..2 -> Answers]

\* requests.RequestException and the subclasses requests raises here:
\* ConnectionError and Timeout from get(), HTTPError from raise_for_status(),
\* JSONDecodeError from json().
RequestException == {"ConnectionError", "Timeout", "HTTPError", "JSONDecodeError"}

\* Response.raise_for_status() raises HTTPError for a 4xx or 5xx status.
raise_for_status(resp) == resp.status_code >= 400 /\ resp.status_code < 600

\* ExternalAPIError(message): the exception object, not yet raised.
ExternalAPIError(message) ==
    Ended("raise", "None", "ExternalAPIError", message, "None")

\* The body of the try statement once get() has answered `a`, and the except
\* clause: the exception e that get(), raise_for_status() or json() raises is a
\* RequestException and is re-raised as ExternalAPIError(f"...{subject_id}: {e}")
\* from e; otherwise json() returns the deserialized document.
Try(subject_id, a) ==
    LET e == CASE a.kind # "Response"       -> a.kind
               [] raise_for_status(a)       -> "HTTPError"
               [] a.body \notin Documents   -> "JSONDecodeError"
               [] OTHER                     -> "None"
    IN  IF e = "None"
        THEN Ended("return", a.body, "", <<>>, "None")
        ELSE IF e \in RequestException
        THEN [ExternalAPIError(<<"Failed to fetch Bangumi subject", subject_id, e>>)
                 EXCEPT !.cause = e]
        ELSE Ended("raise", "None", e, <<>>, "None")

\* search_subject(keyword, ...): builds the url and ends; the function body
\* has no request and no return statement.
search_subject(keyword, net) ==
    LET url == <<BASE_URL, "search/subject", keyword>>
    IN  [gets |-> <<>>, outcome |-> Ended("return", "None", "", <<>>, "None")]

\* Mutant: the exception is raised with a fixed message and without its cause.
fetch_subject_no_cause(subject_id, net) ==
    LET url == <<BASE_URL, "subjects", subject_id>>
        out == Try(subject_id, net[1])
    IN  [gets |-> <<url>>,
         outcome |-> IF out.kind = "raise"
                     THEN ExternalAPIError(<<"Failed to fetch Bangumi subject",
                                             subject_id, "">>)
                     ELSE out]

\* fetch_subject(subject_id): one GET of /subjects/{subject_id}.
fetch_subject(subject_id, net) ==
    LET url == <<BASE_URL, "subjects", subject_id>>
    IN  [gets |-> <<url>>, outcome |-> Try(subject_id, net[1])]

\* Mutant: a failed request is tried once more.
fetch_subject_persons_retry(subject_id, net) ==
    LET url == <<BASE_URL, "subjects", subject_id, "persons">>
        out == Try(subject_id, net[1])
    IN  IF out.kind = "raise"
        THEN [gets |-> <<url, url>>, outcome |-> Try(subject_id, net[2])]
        ELSE [gets |-> <<url>>, outcome |-> out]

\* fetch_subject_persons(subject_id): one GET of /subjects/{subject_id}/persons.
fetch_subject_persons(subject_id, net) ==
    LET url == <<BASE_URL, "subjects", subject_id, "persons">>
    IN  [gets |-> <<url>>, outcome |-> Try(subject_id, net[1])]

\* fetch_subject_characters(subject_id): builds the url and ends; the function
\* body has no request and no return statement.
fetch_subject_characters(subject_id, net) ==
    LET url == <<BASE_URL, "subjects", subject_id, "characters">>
    IN  [gets |-> <<>>, outcome |-> Ended("return", "None", "", <<>>, "None")]

\* The methods that take a subject id, and all methods.
FetchMethods == {"fetch_subject", "fetch_subject_persons", "fetch_subject_characters"}

Methods == FetchMethods \cup {"search_subject"}

\* The methods whose body issues a request.
GetMethods == {"fetch_subject", "fetch_subject_persons"}

\* Method m of a BangumiClient applied to arg while the network answers `net`.
BangumiClient(m, arg, net) ==
    CASE m = "search_subject"           -> search_subject(arg, net)
      [] m = "fetch_subject"            -> fetch_subject(arg, net)
      [] m = "fetch_subject_persons"    -> fetch_subject_persons(arg, net)
      [] m = "fetch_subject_characters" -> fetch_subject_characters(arg, net)

\* A call of method m with argument arg while the network answers `net`: the
\* requests of the call go on the wire and the caller gets the outcome.  The
\* client object holds its timeout only, so a call depends on nothing earlier.
Call(m, arg, net) ==
    /\ client.calls < MaxCalls
    /\ LET res == BangumiClient(m, arg, net)
       IN  client' = [calls   |-> client.calls + 1,
                      wire    |-> client.wire \o res.gets,
                      method  |-> m,
                      arg     |-> arg,
                      answers |-> SubSeq(net, 1, Len(res.gets)),
                      outcome |-> res.outcome]
    /\ UNCHANGED <<db, last, attempts, writers>>

NextClient ==
    \E net \in Nets :
        \/ \E m \in FetchMethods : \E id \in SubjectIds : Call(m, id, net)
        \/ \E k \in Keywords : Call("search_subject", k, net)

SpecClient == Init /\ [][NextClient]_vars

\* C13: every call of a client method ends in one of two ways: it returns a
\* deserialized JSON document, or it raises ExternalAPIError carrying the
\* exception that caused it; no call returns nothing.
C13_DocumentOrExternalAPIError ==
    client.method \in Methods =>
        \/ client.outcome.kind = "return" /\ client.outcome.value \in Documents
        \/ /\ client.outcome.kind = "raise"
           /\ client.outcome.type = "ExternalAPIError"
           /\ client.outcome.cause \in RequestException

\* The answers that are a failure of the transport, and those that are a
\* response of the server.
TransportFailures == {a \in Answers : a.kind \in {"ConnectionError", "Timeout"}}

Responses == {a \in Answers : a.kind = "Response"}

\* The outcome of method m for subject id when every request is answered a.
OutcomeOn(m, id, a) == BangumiClient(m, id, [i \in 1..2 |-> a]).outcome

\* C14: a call whose request failed in the transport (connection error,
\* timeout) raises, and what it raises differs from what any call raises whose
\* request was answered by the server (error status, undecodable body): the
\* caller can tell the two kinds of failure apart.
C14_TransportFailureDistinct ==
    (client.method \in GetMethods /\ client.answers[1] \in TransportFailures) =>
        /\ client.outcome.kind = "raise"
        /\ \A m \in GetMethods : \A id \in SubjectIds : \A b \in Responses :
              OutcomeOn(m, id, b).kind = "raise"
                  => OutcomeOn(m, id, b) # client.outcome

\* C14 witness: a fetch_subject call whose request timed out has raised.
C14_Witness ==
    /\ client.method = "fetch_subject"
    /\ client.answers[1].kind = "Timeout"
    /\ client.outcome.kind = "raise"

\* C20: a call of fetch_subject or fetch_subject_persons issues exactly one GET,
\* of its own url, whether the request fails or not (no retry), and its outcome
\* is that of the answer to that request (no result of an earlier call is
\* returned again).
C20_OneGetPerCall ==
    [][(client'.calls = client.calls + 1 /\ client'.method \in GetMethods) =>
          /\ Len(client'.wire) = Len(client.wire) + 1
          /\ SubSeq(client'.wire, 1, Len(client.wire)) = client.wire
          /\ client'.wire[Len(client'.wire)] =
                BangumiClient(client'.method, client'.arg, client'.answers).gets[1]
          /\ Len(client'.answers) = 1
          /\ client'.outcome = Try(client'.arg, client'.answers[1])]_vars

\* C20 witness: two calls for the same url have been made, each with a request
\* of its own, and the second has raised.
C20_Witness ==
    /\ client.calls = 2 /\ Len(client.wire) = 2
    /\ client.wire[1] = client.wire[2]
    /\ client.method \in GetMethods
    /\ client.outcome.kind = "raise"

===========================================================================
